---------------------------- MODULE Spec2Model ----------------------------
(***************************************************************************)
(* A state-machine model of src/source/main.c: SDL2 setup, the window      *)
(* loop (event polling, client-side fill, texture upload, clear, copy,     *)
(* present) and cleanup().                                                 *)
(*                                                                         *)
(* The program counter pc names the statement main() executes next.  SDL2  *)
(* calls that can fail take their result from BOOLEAN.  The client-side    *)
(* pixel buffer and the texture exist twice, once per element of Runs:     *)
(* the two copies go through the same control flow and differ only in the  *)
(* bytes malloc() hands out, which is what a statement about "runs that    *)
(* differ only in the buffer contents" needs.                              *)
(***************************************************************************)
EXTENDS Integers, Sequences, FiniteSets, TLC

(***************************************************************************)
(* Program constants and bounds.  The virtual resolution is 160 x 144 in   *)
(* the source (main.c:9-10); the model runs the same loops on a smaller    *)
(* grid.                                                                   *)
(***************************************************************************)
OS_FAILURE_RETURN_CODE == -1

WINDOW_WIDTH_VIRTUAL == 3

WINDOW_HEIGHT_VIRTUAL == 2

WINDOW_PIXELS_TOTAL_VIRTUAL == WINDOW_WIDTH_VIRTUAL * WINDOW_HEIGHT_VIRTUAL

\* sizeof(uint32_t), main.c:213
SizeofUint32 == 4

\* Largest number of padding texels a texture row may carry.
MaxPadTexels == 1

\* malloc() returns memory filled with one of the bytes (g * 85) % 256.
MaxGarbage == 1

\* Most events that wait in SDL's queue at a time.
MaxQueue == 2

Runs == {1, 2}

GarbageBytes == {(g * 85) % 256 : g \in 0..MaxGarbage}

\* The pitches SDL may report for a 4-byte-per-texel texture of this width.
Pitches == {SizeofUint32 * (WINDOW_WIDTH_VIRTUAL + p) : p \in 0..MaxPadTexels}

Resources == {"sdl", "window", "renderer", "texture", "format", "buffer"}

\* The events the window system delivers: the two the switch handles and
\* two it ignores.
Events ==
  { [type |-> "SDL_QUIT",    sym |-> "none"],
    [type |-> "SDL_KEYDOWN", sym |-> "SDLK_ESCAPE"],
    [type |-> "SDL_KEYDOWN", sym |-> "SDLK_a"],
    [type |-> "SDL_KEYUP",   sym |-> "SDLK_ESCAPE"] }

SetupSteps ==
  << "SDL_Init", "SDL_CreateWindow", "SDL_CreateRenderer", "SDL_CreateTexture",
     "SDL_QueryTexture", "SDL_AllocFormat", "SDL_RenderSetLogicalSize",
     "SDL_SetRenderDrawColor", "malloc" >>

VARIABLES
  pc,                        \* the statement main() executes next
  return_code,               \* main's return value, "none" until it returns
  stderr,                    \* the calls whose failure was written to stderr
  setup_calls,               \* the setup calls made so far, in order
  acquired,                  \* resource -> it was acquired successfully
  released,                  \* resource -> how often it was released
  sdl_quit_calls,            \* calls of SDL_Quit
  loop_entered,              \* the body of the window loop was entered
  window_close_requested,    \* main.c:151
  frames_after_close,        \* frames presented with window_close_requested set
  event_queue,               \* SDL's event queue
  p_client_pixels_rgba,      \* run -> client-side pixel buffer (<<>> before malloc)
  fill_visits,               \* index -> how often the last fill visited it
  window_texture_pitch,      \* the pitch of the texture created by SDL_CreateTexture
  texture_pixels,            \* run -> texel index -> uint32 colour
  texture_locked,            \* the texture is locked
  p_texture_pixels,          \* "NULL" or "locked_area"
  texture_pitch,             \* the local filled in by SDL_LockTexture
  texel_writes,              \* texel index -> stores of the last upload loop
  lock_texture_successful,   \* main.c:203
  render_clear_successful,   \* main.c:245
  render_copy_successful     \* main.c:252

vars ==
  << pc, return_code, stderr, setup_calls, acquired, released, sdl_quit_calls,
     loop_entered, window_close_requested, frames_after_close, event_queue,
     p_client_pixels_rgba, fill_visits, window_texture_pitch, texture_pixels,
     texture_locked, p_texture_pixels, texture_pitch, texel_writes,
     lock_texture_successful, render_clear_successful, render_copy_successful >>

exitVars == << return_code, stderr, released, sdl_quit_calls >>

loopVars ==
  << loop_entered, window_close_requested, frames_after_close >>

bufferVars == << p_client_pixels_rgba, fill_visits >>

textureVars ==
  << window_texture_pitch, texture_pixels, texture_locked, p_texture_pixels,
     texture_pitch, texel_writes >>

frameResults ==
  << lock_texture_successful, render_clear_successful, render_copy_successful >>

Init ==
  /\ pc = "SDL_Init"
  /\ return_code = "none"
  /\ stderr = {}
  /\ setup_calls = << >>
  /\ acquired = [r \in Resources |-> FALSE]
  /\ released = [r \in Resources |-> 0]
  /\ sdl_quit_calls = 0
  /\ loop_entered = FALSE
  /\ window_close_requested = 0
  /\ frames_after_close = 0
  /\ event_queue = << >>
  /\ p_client_pixels_rgba = [r \in Runs |-> << >>]
  /\ fill_visits = << >>
  /\ window_texture_pitch = 0
  /\ texture_pixels = [r \in Runs |-> << >>]
  /\ texture_locked = FALSE
  /\ p_texture_pixels = "NULL"
  /\ texture_pitch = 0
  /\ texel_writes = << >>
  /\ lock_texture_successful = 0
  /\ render_clear_successful = 0
  /\ render_copy_successful = 0

(***************************************************************************)
(* cleanup(), main.c:273-297.  A parameter is TRUE when the pointer passed *)
(* is not NULL.  SDL_FreeFormat(NULL) releases nothing; SDL_Quit is called *)
(* unconditionally.  The client-side pixel buffer is not a parameter.      *)
(***************************************************************************)
cleanup(p_window, p_renderer, p_texture, p_pixel_format) ==
  /\ released' =
       [released EXCEPT
          !["format"]   = @ + (IF p_pixel_format THEN 1 ELSE 0),
          !["texture"]  = @ + (IF p_texture THEN 1 ELSE 0),
          !["renderer"] = @ + (IF p_renderer THEN 1 ELSE 0),
          !["window"]   = @ + (IF p_window THEN 1 ELSE 0)]
  /\ sdl_quit_calls' = sdl_quit_calls + 1

\* A failure branch that returns 0 to the operating system.
FailExitReturnsZero(call, p_window, p_renderer, p_texture, p_pixel_format) ==
  /\ stderr' = stderr \cup {call}
  /\ cleanup(p_window, p_renderer, p_texture, p_pixel_format)
  /\ return_code' = 0
  /\ pc' = "returned"

\* The body of every setup failure branch: fprintf(stderr, ...), cleanup(...),
\* return OS_FAILURE_RETURN_CODE.
FailExit(call, p_window, p_renderer, p_texture, p_pixel_format) ==
  /\ stderr' = stderr \cup {call}
  /\ cleanup(p_window, p_renderer, p_texture, p_pixel_format)
  /\ return_code' = OS_FAILURE_RETURN_CODE
  /\ pc' = "returned"

\* A setup call that succeeded: the resource (if any) is held and main goes on.
Proceed(resources, next) ==
  /\ acquired' = [r \in Resources |-> acquired[r] \/ r \in resources]
  /\ pc' = next
  /\ UNCHANGED exitVars

SDL_Init ==
  /\ pc = "SDL_Init"
  /\ setup_calls' = Append(setup_calls, "SDL_Init")
  /\ \E ok \in BOOLEAN :
       IF ok THEN Proceed({"sdl"}, "SDL_CreateWindow")
       ELSE FailExit("SDL_Init", FALSE, FALSE, FALSE, FALSE) /\ UNCHANGED acquired
  /\ UNCHANGED << loopVars, event_queue, bufferVars, textureVars, frameResults >>

SDL_CreateWindow ==
  /\ pc = "SDL_CreateWindow"
  /\ setup_calls' = Append(setup_calls, "SDL_CreateWindow")
  /\ \E ok \in BOOLEAN :
       IF ok THEN Proceed({"window"}, "SDL_CreateRenderer")
       ELSE FailExit("SDL_CreateWindow", FALSE, FALSE, FALSE, FALSE)
            /\ UNCHANGED acquired
  /\ UNCHANGED << loopVars, event_queue, bufferVars, textureVars, frameResults >>

SDL_CreateRenderer ==
  /\ pc = "SDL_CreateRenderer"
  /\ setup_calls' = Append(setup_calls, "SDL_CreateRenderer")
  /\ \E ok \in BOOLEAN :
       IF ok THEN Proceed({"renderer"}, "SDL_CreateTexture")
       ELSE FailExit("SDL_CreateRenderer", TRUE, FALSE, FALSE, FALSE)
            /\ UNCHANGED acquired
  /\ UNCHANGED << loopVars, event_queue, bufferVars, textureVars, frameResults >>

\* SDL_CreateTexture, main.c:90-102.  The texture's pitch is the driver's
\* choice; its texels start out the same in both runs.
SDL_CreateTexture ==
  /\ pc = "SDL_CreateTexture"
  /\ setup_calls' = Append(setup_calls, "SDL_CreateTexture")
  /\ \E ok \in BOOLEAN :
       IF ok
       THEN /\ Proceed({"texture"}, "SDL_QueryTexture")
            /\ \E pitch \in Pitches :
                 /\ window_texture_pitch' = pitch
                 /\ texture_pixels' =
                      [r \in Runs |->
                         [i \in 0..((pitch \div SizeofUint32) * WINDOW_HEIGHT_VIRTUAL - 1)
                            |-> << 0, 0, 0, 0 >>]]
       ELSE /\ FailExit("SDL_CreateTexture", TRUE, TRUE, FALSE, FALSE)
            /\ UNCHANGED << acquired, window_texture_pitch, texture_pixels >>
  /\ UNCHANGED << loopVars, event_queue, bufferVars, texture_locked,
                  p_texture_pixels, texture_pitch, texel_writes, frameResults >>

SDL_QueryTexture ==
  /\ pc = "SDL_QueryTexture"
  /\ setup_calls' = Append(setup_calls, "SDL_QueryTexture")
  /\ \E ok \in BOOLEAN :
       IF ok THEN Proceed({}, "SDL_AllocFormat")
       ELSE FailExit("SDL_QueryTexture", TRUE, TRUE, TRUE, FALSE)
            /\ UNCHANGED acquired
  /\ UNCHANGED << loopVars, event_queue, bufferVars, textureVars, frameResults >>

SDL_AllocFormat ==
  /\ pc = "SDL_AllocFormat"
  /\ setup_calls' = Append(setup_calls, "SDL_AllocFormat")
  /\ \E ok \in BOOLEAN :
       IF ok THEN Proceed({"format"}, "SDL_RenderSetLogicalSize")
       ELSE FailExit("SDL_AllocFormat", TRUE, TRUE, TRUE, FALSE)
            /\ UNCHANGED acquired
  /\ UNCHANGED << loopVars, event_queue, bufferVars, textureVars, frameResults >>

SDL_RenderSetLogicalSize ==
  /\ pc = "SDL_RenderSetLogicalSize"
  /\ setup_calls' = Append(setup_calls, "SDL_RenderSetLogicalSize")
  /\ \E ok \in BOOLEAN :
       IF ok THEN Proceed({}, "SDL_SetRenderDrawColor")
       ELSE FailExit("SDL_RenderSetLogicalSize", TRUE, TRUE, TRUE, TRUE)
            /\ UNCHANGED acquired
  /\ UNCHANGED << loopVars, event_queue, bufferVars, textureVars, frameResults >>

SDL_SetRenderDrawColor ==
  /\ pc = "SDL_SetRenderDrawColor"
  /\ setup_calls' = Append(setup_calls, "SDL_SetRenderDrawColor")
  /\ \E ok \in BOOLEAN :
       IF ok THEN Proceed({}, "malloc")
       ELSE FailExit("SDL_SetRenderDrawColor", TRUE, TRUE, TRUE, TRUE)
            /\ UNCHANGED acquired
  /\ UNCHANGED << loopVars, event_queue, bufferVars, textureVars, frameResults >>

\* What malloc() returns: WINDOW_PIXELS_TOTAL_VIRTUAL pixels of indeterminate
\* bytes.
MallocBuffer(g) ==
  [i \in 0..(WINDOW_PIXELS_TOTAL_VIRTUAL - 1) |->
     [red |-> g, green |-> g, blue |-> g, alpha |-> g]]

\* malloc of the client-side pixel buffer, main.c:142-148.
Malloc ==
  /\ pc = "malloc"
  /\ setup_calls' = Append(setup_calls, "malloc")
  /\ \E ok \in BOOLEAN :
       IF ok
       THEN /\ Proceed({"buffer"}, "while")
            /\ \E g1 \in GarbageBytes, g2 \in GarbageBytes :
                 p_client_pixels_rgba' =
                   [r \in Runs |-> MallocBuffer(IF r = 1 THEN g1 ELSE g2)]
       ELSE /\ FailExit("malloc", TRUE, TRUE, TRUE, TRUE)
            /\ UNCHANGED << acquired, p_client_pixels_rgba >>
  /\ UNCHANGED << loopVars, event_queue, fill_visits, textureVars, frameResults >>

(***************************************************************************)
(* The window loop, main.c:151-263.                                        *)
(***************************************************************************)

\* The window system puts an event into SDL's queue; it can do so whenever
\* the window exists and main has not ended.
EventArrives ==
  /\ acquired["window"]
  /\ pc \notin {"returned", "crashed"}
  /\ Len(event_queue) < MaxQueue
  /\ \E e \in Events : event_queue' = Append(event_queue, e)
  /\ UNCHANGED << pc, exitVars, setup_calls, acquired, loopVars, bufferVars,
                  textureVars, frameResults >>

\* while (!window_close_requested), main.c:152, and the two statements after
\* the loop: cleanup(...) and return 0, main.c:266-269.
WhileTest ==
  /\ pc = "while"
  /\ IF window_close_requested = 0
     THEN /\ pc' = "poll"
          /\ loop_entered' = TRUE
          /\ UNCHANGED exitVars
     ELSE /\ cleanup(TRUE, TRUE, TRUE, TRUE)
          /\ return_code' = 0
          /\ pc' = "returned"
          /\ UNCHANGED << stderr, loop_entered >>
  /\ UNCHANGED << setup_calls, acquired, window_close_requested,
                  frames_after_close, event_queue, bufferVars, textureVars,
                  frameResults >>

\* The switch on window_event.type, main.c:159-170.
HandleEvent(window_event, close_requested) ==
  CASE window_event.type = "SDL_QUIT" -> 1
    [] window_event.type = "SDL_KEYDOWN" ->
         IF window_event.sym = "SDLK_ESCAPE" THEN 1 ELSE close_requested
    [] OTHER -> close_requested

\* An if in place of the while: one event per iteration.
PollOnce(poll_result) == "fill"

\* while (SDL_PollEvent(&window_event) != 0), main.c:156: where control goes
\* after SDL_PollEvent returned poll_result.
PollLoop(poll_result) == IF poll_result # 0 THEN "poll" ELSE "fill"

\* One call of SDL_PollEvent and, when it returned an event, the loop body.
PollEvent ==
  /\ pc = "poll"
  /\ IF event_queue # << >>
     THEN /\ window_close_requested' =
               HandleEvent(Head(event_queue), window_close_requested)
          /\ event_queue' = Tail(event_queue)
          /\ pc' = PollLoop(1)
     ELSE /\ pc' = PollLoop(0)
          /\ UNCHANGED << window_close_requested, event_queue >>
  /\ UNCHANGED << exitVars, setup_calls, acquired, loop_entered,
                  frames_after_close, bufferVars, textureVars, frameResults >>

\* The pairs <<texel_x, texel_y>> in the order the nested for loops of
\* main.c:174-176 and main.c:214-216 visit them.
LoopCoords ==
  [k \in 1..(WINDOW_WIDTH_VIRTUAL * WINDOW_HEIGHT_VIRTUAL) |->
     << (k - 1) % WINDOW_WIDTH_VIRTUAL, (k - 1) \div WINDOW_WIDTH_VIRTUAL >>]

\* An index that strides by the height instead of the width.
FillTexelIndexByHeight(texel_x, texel_y) ==
  (WINDOW_HEIGHT_VIRTUAL * texel_y) + texel_x

\* client_texel_index of the fill, main.c:178.
FillTexelIndex(texel_x, texel_y) == (WINDOW_WIDTH_VIRTUAL * texel_y) + texel_x

\* The if/else chain of the fill, main.c:182-192: the pixel at index after it.
FillPixel(pixel, index) ==
  IF index = 0 THEN [pixel EXCEPT !.red = 255]
  ELSE IF index = WINDOW_WIDTH_VIRTUAL - 1 THEN [pixel EXCEPT !.green = 255]
  ELSE IF index = (WINDOW_HEIGHT_VIRTUAL - 1) * WINDOW_WIDTH_VIRTUAL
       THEN [pixel EXCEPT !.blue = 255]
  ELSE IF index = WINDOW_PIXELS_TOTAL_VIRTUAL - 1
       THEN [pixel EXCEPT !.red = 0, !.green = 0, !.blue = 0]
  ELSE [red |-> 255, green |-> 255, blue |-> 255, alpha |-> 255]

\* The indices the fill visits, in order.
FillIndices ==
  [k \in DOMAIN LoopCoords |-> FillTexelIndex(LoopCoords[k][1], LoopCoords[k][2])]

RECURSIVE FillFrom(_, _)
\* The buffer after the fill's iterations k, k+1, ...
FillFrom(buffer, k) ==
  IF k > Len(FillIndices) THEN buffer
  ELSE LET index == FillIndices[k] IN
       FillFrom(IF index \in DOMAIN buffer
                THEN [buffer EXCEPT ![index] = FillPixel(buffer[index], index)]
                ELSE buffer,
                k + 1)

\* index -> the number of positions of log that hold it.
Occurrences(log) ==
  [i \in {log[k] : k \in DOMAIN log} |->
     Cardinality({k \in DOMAIN log : log[k] = i})]

\* The client-side fill, main.c:174-194.
Fill ==
  /\ pc = "fill"
  /\ p_client_pixels_rgba' =
       [r \in Runs |-> FillFrom(p_client_pixels_rgba[r], 1)]
  /\ fill_visits' = Occurrences(FillIndices)
  /\ pc' = "lock"
  /\ UNCHANGED << exitVars, setup_calls, acquired, loopVars, event_queue,
                  textureVars, frameResults >>

\* SDL_LockTexture, main.c:201-207.  On failure the error is written to
\* stderr and main goes on: p_texture_pixels keeps its NULL and texture_pitch
\* is whatever the call left in it.
SDL_LockTexture ==
  /\ pc = "lock"
  /\ \E ok \in BOOLEAN :
       IF ok
       THEN /\ lock_texture_successful' = 0
            /\ texture_locked' = TRUE
            /\ p_texture_pixels' = "locked_area"
            /\ texture_pitch' = window_texture_pitch
            /\ UNCHANGED stderr
       ELSE /\ lock_texture_successful' = -1
            /\ stderr' = stderr \cup {"SDL_LockTexture"}
            /\ p_texture_pixels' = "NULL"
            /\ texture_pitch' \in Pitches \cup {0}
            /\ UNCHANGED texture_locked
  /\ pc' = "upload"
  /\ UNCHANGED << return_code, released, sdl_quit_calls, setup_calls, acquired,
                  loopVars, event_queue, bufferVars, window_texture_pitch,
                  texture_pixels, texel_writes, render_clear_successful,
                  render_copy_successful >>

\* SDL_MapRGB for the SDL_PIXELFORMAT_RGBA8888 format the texture was created
\* with (main.c:92, 224-229): the uint32 0xRRGGBBFF, as its four bytes from
\* the most significant down.  The client pixel's alpha is not used.
SDL_MapRGB(pixel) == << pixel.red, pixel.green, pixel.blue, 255 >>

\* client_texel_index of the upload, main.c:220.
client_texel_index(texel_x, texel_y) == (WINDOW_WIDTH_VIRTUAL * texel_y) + texel_x

\* A row stride of the texture's width, whatever the pitch.
TexelIndexIgnoringPitch(padded_texels_per_row, texel_x, texel_y) ==
  (WINDOW_WIDTH_VIRTUAL * texel_y) + texel_x

\* texture_texel_index, main.c:219.
texture_texel_index(padded_texels_per_row, texel_x, texel_y) ==
  (padded_texels_per_row * texel_y) + texel_x

\* The stores of the upload loop, main.c:214-233, in order.
UploadStores(buffer, padded_texels_per_row) ==
  [k \in DOMAIN LoopCoords |->
     LET texel_x == LoopCoords[k][1]
         texel_y == LoopCoords[k][2]
     IN [index |-> texture_texel_index(padded_texels_per_row, texel_x, texel_y),
         color |-> SDL_MapRGB(buffer[client_texel_index(texel_x, texel_y)])]]

RECURSIVE StoreFrom(_, _, _)
\* The locked texels after the stores k, k+1, ... of stores.
StoreFrom(texels, stores, k) ==
  IF k > Len(stores) THEN texels
  ELSE StoreFrom(IF stores[k].index \in DOMAIN texels
                 THEN [texels EXCEPT ![stores[k].index] = stores[k].color]
                 ELSE texels,
                 stores, k + 1)

\* The upload loop, main.c:212-233.  With p_texture_pixels NULL (the lock
\* failed) every store is undefined behaviour: the process dies on the first
\* one, or the stores land outside the texture and main goes on.
Upload ==
  /\ pc = "upload"
  /\ LET padded_texels_per_row == texture_pitch \div SizeofUint32
         stores(r) == UploadStores(p_client_pixels_rgba[r], padded_texels_per_row)
     IN IF p_texture_pixels # "NULL"
        THEN /\ texture_pixels' =
                  [r \in Runs |-> StoreFrom(texture_pixels[r], stores(r), 1)]
             /\ texel_writes' =
                  Occurrences([k \in DOMAIN LoopCoords |-> stores(1)[k].index])
             /\ pc' = "unlock"
        ELSE /\ UNCHANGED << texture_pixels, texel_writes >>
             /\ pc' \in {"unlock", "crashed"}
  /\ UNCHANGED << exitVars, setup_calls, acquired, loopVars, event_queue,
                  bufferVars, window_texture_pitch, texture_locked,
                  p_texture_pixels, texture_pitch, frameResults >>

\* SDL_UnlockTexture, main.c:236.
SDL_UnlockTexture ==
  /\ pc = "unlock"
  /\ texture_locked' = FALSE
  /\ pc' = "clear"
  /\ UNCHANGED << exitVars, setup_calls, acquired, loopVars, event_queue,
                  bufferVars, window_texture_pitch, texture_pixels,
                  p_texture_pixels, texture_pitch, texel_writes, frameResults >>

\* SDL_RenderClear, main.c:245-249.
SDL_RenderClear ==
  /\ pc = "clear"
  /\ \E ok \in BOOLEAN :
       IF ok
       THEN render_clear_successful' = 0 /\ UNCHANGED stderr
       ELSE /\ render_clear_successful' = -1
            /\ stderr' = stderr \cup {"SDL_RenderClear"}
  /\ pc' = "copy"
  /\ UNCHANGED << return_code, released, sdl_quit_calls, setup_calls, acquired,
                  loopVars, event_queue, bufferVars, textureVars,
                  lock_texture_successful, render_copy_successful >>

\* SDL_RenderCopy, main.c:252-256.
SDL_RenderCopy ==
  /\ pc = "copy"
  /\ \E ok \in BOOLEAN :
       IF ok
       THEN render_copy_successful' = 0 /\ UNCHANGED stderr
       ELSE /\ render_copy_successful' = -1
            /\ stderr' = stderr \cup {"SDL_RenderCopy"}
  /\ pc' = "present"
  /\ UNCHANGED << return_code, released, sdl_quit_calls, setup_calls, acquired,
                  loopVars, event_queue, bufferVars, textureVars,
                  lock_texture_successful, render_clear_successful >>

\* SDL_RenderPresent and the end of the loop body, main.c:262-263: the locals
\* of the iteration go out of scope.
SDL_RenderPresent ==
  /\ pc = "present"
  /\ frames_after_close' =
       frames_after_close + (IF window_close_requested = 1 THEN 1 ELSE 0)
  /\ lock_texture_successful' = 0
  /\ render_clear_successful' = 0
  /\ render_copy_successful' = 0
  /\ p_texture_pixels' = "NULL"
  /\ texture_pitch' = 0
  /\ pc' = "while"
  /\ UNCHANGED << exitVars, setup_calls, acquired, loop_entered,
                  window_close_requested, event_queue, bufferVars,
                  window_texture_pitch, texture_pixels, texture_locked,
                  texel_writes >>

Next ==
  \/ SDL_Init
  \/ SDL_CreateWindow
  \/ SDL_CreateRenderer
  \/ SDL_CreateTexture
  \/ SDL_QueryTexture
  \/ SDL_AllocFormat
  \/ SDL_RenderSetLogicalSize
  \/ SDL_SetRenderDrawColor
  \/ Malloc
  \/ EventArrives
  \/ WhileTest
  \/ PollEvent
  \/ Fill
  \/ SDL_LockTexture
  \/ Upload
  \/ SDL_UnlockTexture
  \/ SDL_RenderClear
  \/ SDL_RenderCopy
  \/ SDL_RenderPresent

Spec == Init /\ [][Next]_vars

(***************************************************************************)
(* Properties.                                                             *)
(***************************************************************************)

\* Some setup call failed: its name is on stderr.
SetupFailed == \E k \in DOMAIN setup_calls : setup_calls[k] \in stderr

\* The statements of the loop body from the fill to SDL_RenderPresent.
RenderPcs == {"fill", "lock", "upload", "unlock", "clear", "copy", "present"}

IsPrefix(s, t) == Len(s) <= Len(t) /\ SubSeq(t, 1, Len(s)) = s

Corners ==
  { 0, WINDOW_WIDTH_VIRTUAL - 1,
    (WINDOW_HEIGHT_VIRTUAL - 1) * WINDOW_WIDTH_VIRTUAL,
    WINDOW_PIXELS_TOTAL_VIRTUAL - 1 }

\* C1: whenever a call made by main fails, the program logs the error and
\* exits without a further setup or rendering step; in particular the upload
\* loop does not run in a frame whose SDL_LockTexture call failed.
C1_LogAndExit ==
  /\ SetupFailed => pc = "returned"
  /\ lock_texture_successful # 0 =>
       "SDL_LockTexture" \in stderr /\ pc = "returned"
  /\ render_clear_successful # 0 =>
       "SDL_RenderClear" \in stderr /\ pc = "returned"
  /\ render_copy_successful # 0 =>
       "SDL_RenderCopy" \in stderr /\ pc = "returned"

\* C2: main returns OS_FAILURE_RETURN_CODE exactly when a setup step failed
\* and 0 exactly when the window loop was entered and left through a close
\* request; after a failure at step k the calls made are exactly steps 1..k
\* and the loop is never entered.
C2_ExitCodes ==
  /\ IsPrefix(setup_calls, SetupSteps)
  /\ pc # "returned" => return_code = "none" /\ ~SetupFailed
  /\ pc = "returned" =>
       /\ return_code = OS_FAILURE_RETURN_CODE <=> SetupFailed
       /\ return_code = 0 <=> (loop_entered /\ window_close_requested = 1)
       /\ return_code \in {OS_FAILURE_RETURN_CODE, 0}
  /\ SetupFailed =>
       /\ setup_calls[Len(setup_calls)] \in stderr
       /\ Cardinality(stderr) = 1
       /\ ~loop_entered
       /\ frames_after_close = 0 /\ fill_visits = << >>

\* A setup step in the middle failed and main returned.
C2_Witness ==
  /\ pc = "returned"
  /\ return_code = OS_FAILURE_RETURN_CODE
  /\ setup_calls = SubSeq(SetupSteps, 1, 6)

\* C3: the colours uploaded to the texture in a frame do not depend on what
\* the client-side buffer held before the frame: two runs that differ only in
\* the bytes malloc handed out upload the same texels.
C3_UploadIndependentOfBuffer ==
  (pc = "unlock" /\ texture_locked) => texture_pixels[1] = texture_pixels[2]

\* C4: the fill starts only after SDL_PollEvent returned 0 on an empty queue,
\* it is reached only from the polling loop, and from the fill to
\* SDL_RenderPresent no event leaves the queue.
C4_EventThenRender ==
  [][ /\ (pc # "fill" /\ pc' = "fill") => (pc = "poll" /\ event_queue = << >>)
      /\ pc \in RenderPcs => IsPrefix(event_queue, event_queue')
    ]_vars

\* A frame is being rendered after a close request was polled, with events
\* that arrived since waiting in the queue.
C4_Witness ==
  /\ pc = "copy"
  /\ window_close_requested = 1
  /\ Len(event_queue) = MaxQueue

\* C5: when main has returned, every resource that was acquired has been
\* released exactly once and no resource that was never acquired was
\* released.  (SDL_Quit after a failed SDL_Init is allowed by SDL: the claim
\* is read as one SDL_Quit for an initialized SDL and at most one otherwise.)
C5_CleanupAllResources ==
  pc = "returned" =>
    /\ \A r \in Resources \ {"sdl"} :
         released[r] = (IF acquired[r] THEN 1 ELSE 0)
    /\ sdl_quit_calls <= 1
    /\ acquired["sdl"] => sdl_quit_calls = 1

\* C6: window_close_requested is set only by a polled SDL_QUIT or an
\* SDL_KEYDOWN of SDLK_ESCAPE and never reset; once it is set the program
\* presents at most the frame of the current iteration and goes on to
\* cleanup and return: it does not end any other way.
C6_CloseRequestTerminates ==
  [][ /\ window_close_requested' # window_close_requested =>
           /\ pc = "poll" /\ event_queue # << >>
           /\ \/ Head(event_queue).type = "SDL_QUIT"
              \/ /\ Head(event_queue).type = "SDL_KEYDOWN"
                 /\ Head(event_queue).sym = "SDLK_ESCAPE"
           /\ window_close_requested' = 1
      /\ frames_after_close' <= 1
      /\ window_close_requested = 1 => pc' # "crashed"
    ]_vars

\* C7: after an upload under a lock whose pitch is a multiple of 4 and at
\* least 4 * WINDOW_WIDTH_VIRTUAL, the texel at byte offset y * pitch + 4 * x
\* holds client pixel (x, y) packed as RGBA8888, each such texel was stored
\* exactly once, and no other texel (padding, or outside the locked
\* pitch * WINDOW_HEIGHT_VIRTUAL bytes) was stored.
C7_PitchAwareUpload ==
  (/\ pc = "unlock" /\ texture_locked
   /\ texture_pitch % 4 = 0
   /\ texture_pitch >= 4 * WINDOW_WIDTH_VIRTUAL) =>
    LET texel(x, y) == (y * texture_pitch + 4 * x) \div 4
        visible == { texel(x, y) : x \in 0..(WINDOW_WIDTH_VIRTUAL - 1),
                                   y \in 0..(WINDOW_HEIGHT_VIRTUAL - 1) }
    IN /\ DOMAIN texel_writes = visible
       /\ \A i \in visible :
            /\ texel_writes[i] = 1
            /\ 4 * i + 4 <= texture_pitch * WINDOW_HEIGHT_VIRTUAL
       /\ \A r \in Runs :
            \A x \in 0..(WINDOW_WIDTH_VIRTUAL - 1),
               y \in 0..(WINDOW_HEIGHT_VIRTUAL - 1) :
              LET pixel == p_client_pixels_rgba[r][WINDOW_WIDTH_VIRTUAL * y + x]
              IN /\ texel(x, y) \in DOMAIN texture_pixels[r]
                 /\ texture_pixels[r][texel(x, y)] =
                      << pixel.red, pixel.green, pixel.blue, 255 >>
       /\ \A r \in Runs :
            \A i \in DOMAIN texture_pixels[r] \ visible :
              texture_pixels[r][i] = << 0, 0, 0, 0 >>

\* An upload into a texture whose rows carry padding has just finished.
C7_Witness ==
  /\ pc = "unlock"
  /\ texture_locked
  /\ texture_pitch > 4 * WINDOW_WIDTH_VIRTUAL

\* C8: the upload loop runs only while the texture is locked, so that the
\* SDL_UnlockTexture after it matches a successful lock, and the texture is
\* not locked when SDL_RenderClear, SDL_RenderCopy or SDL_RenderPresent runs.
C8_PipelineOrder ==
  /\ pc \in {"unlock", "crashed"} => texture_locked
  /\ pc \in {"clear", "copy", "present"} => ~texture_locked

\* C9: the fill visits every index 0 .. WINDOW_PIXELS_TOTAL_VIRTUAL - 1
\* exactly once and no other; after it every pixel that is not a corner is
\* 0xFF in all four components, the last pixel has red = green = blue = 0,
\* and the first three corners have red, green and blue 0xFF respectively.
C9_ProceduralFill ==
  pc \in RenderPcs \ {"fill"} =>
    /\ fill_visits = [i \in 0..(WINDOW_PIXELS_TOTAL_VIRTUAL - 1) |-> 1]
    /\ \A r \in Runs :
         LET buffer == p_client_pixels_rgba[r] IN
         /\ DOMAIN buffer = 0..(WINDOW_PIXELS_TOTAL_VIRTUAL - 1)
         /\ \A i \in DOMAIN buffer \ Corners :
              buffer[i] = [red |-> 255, green |-> 255, blue |-> 255, alpha |-> 255]
         /\ buffer[WINDOW_PIXELS_TOTAL_VIRTUAL - 1].red = 0
         /\ buffer[WINDOW_PIXELS_TOTAL_VIRTUAL - 1].green = 0
         /\ buffer[WINDOW_PIXELS_TOTAL_VIRTUAL - 1].blue = 0
         /\ buffer[0].red = 255
         /\ buffer[WINDOW_WIDTH_VIRTUAL - 1].green = 255
         /\ buffer[(WINDOW_HEIGHT_VIRTUAL - 1) * WINDOW_WIDTH_VIRTUAL].blue = 255

\* The first fill after malloc has run over a buffer of non-zero bytes: the
\* corners keep what the fill does not set.
C9_Witness ==
  /\ pc = "lock"
  /\ frames_after_close = 0
  /\ p_client_pixels_rgba[1][0].green \notin {0, 255}
  /\ p_client_pixels_rgba[1][1].green = 255

=============================================================================
